---- MODULE Spec2Model ----
(***************************************************************************)
(* A model of raptobo, a reader of APT repository metadata.                *)
(*                                                                         *)
(* Text is modelled character by character: a Rust String is a sequence of *)
(* one-character strings, so that trimming, splitting and slicing are      *)
(* computed as the code computes them.  A HashMap is a function whose      *)
(* domain is the set of its keys.  Result and Option values are records    *)
(* with a tag; a panic (unwrap of an Err, an index or slice out of range)  *)
(* is the outcome Panic, which unwinds through every caller.               *)
(*                                                                         *)
(* Every parser of the crate is a pure function; each one is an operator   *)
(* here, and each specification draws the function's input in Init and     *)
(* applies the function in an action.                                      *)
(***************************************************************************)
EXTENDS Integers, Sequences, FiniteSets, TLC

VARIABLES
    content,    \* Vec<String>: the lines handed to parse_metadata / PackageMetadata::parse
    stanzas,    \* the value returned by parse_metadata(content), NotCalled before the call
    packages,   \* the value returned by PackageMetadata::parse(content)
    raw,        \* the version strings handed to PackageVersion::new
    parsed,     \* parsed.val[i]: the value returned by PackageVersion::new(raw[i])
    ord,        \* ord.val[<<i, j>>]: the i-th version .partial_cmp(the j-th version)
    terms,      \* a relationship field: its comma-separated terms, each a sequence of `|`-separated atoms
    root,       \* the value returned by PackageRelation::new(the text of terms[1])
    depends,    \* the value returned by PackageRelation::parse("Depends", stanza) for the field terms
    candidate,  \* the PackageMetadata handed to PackageRelation::is
    matches,    \* the value returned by root.is(candidate)
    fields,     \* a stanza handed to stanza_files or PackageListItem::parse
    listed,     \* the value returned by stanza_files("MD5Sum", fields)
    list_items, \* the value returned by PackageListItem::parse("Package-List", fields)
    repo,       \* the Repository: its spec, its metadata and its data
    calls       \* the methods of repo called so far, each with the value it returned

vars == <<content, stanzas, packages, raw, parsed, ord, terms, root, depends,
          candidate, matches, fields, listed, list_items, repo, calls>>

versionVars == <<raw, parsed, ord>>
documentVars == <<content, stanzas, packages>>
relationVars == <<terms, root, depends, candidate, matches>>
fieldVars == <<fields, listed, list_items>>
repositoryVars == <<repo, calls>>

(***************************************************************************)
(* Bounds of the model.                                                    *)
(***************************************************************************)
MaxLines == 5
MaxVersionLen == 5      \* length of the version string of SpecVersionParse
MaxCompareLen == 3      \* length of the two version strings of SpecVersionCompare
MaxFragmentLen == 3     \* length of the two version strings of SpecFragmentCompare
MaxOrderLen == 3        \* length of the three version strings of SpecVersionOrder
MaxTerms == 2           \* comma-separated terms of a relationship field
MaxAlternatives == 3    \* `|`-separated atoms of a term
MaxAnnotated == 2       \* atoms of the term of SpecAnnotation
MaxBlocks == 2          \* blocks of a Packages document
MaxFileLines == 2       \* value lines of a files field
MaxTokens == 4          \* tokens of a value line of a files field
MaxListLines == 2       \* value lines of a Package-List field
MaxListTokens == 6      \* tokens of a value line of a Package-List field
MaxCalls == 3           \* calls on the Repository
MaxLoads == 1           \* calls of load_metadata among them
MaxListed == 3          \* paths under MD5Sum in a release file
MaxHashed == 1          \* paths under SHA1 and under SHA256 in a release file
MaxRunsLen == 3         \* length of the two version strings of SpecDigitRuns
MaxPrefixLen == 2       \* length of the prefixes of the two blocks of SpecBlockCompare
MaxNumber == 1          \* number of the two blocks of SpecBlockCompare

(***************************************************************************)
(* Result<T, RaptoboError>, Option<T> and abnormal termination.            *)
(***************************************************************************)
Ok(v) == [tag |-> "Ok", val |-> v]
Err == [tag |-> "Err"]
Some(v) == [tag |-> "Some", val |-> v]
None == [tag |-> "None"]
Panic == [tag |-> "Panic"]
NotCalled == [tag |-> "NotCalled"]
Returned(v) == [tag |-> "Returned", val |-> v]

(***************************************************************************)
(* Sequences of at most n elements of S.                                   *)
(***************************************************************************)
SeqUpTo(S, n) == UNION {[1..k -> S] : k \in 0..n}

(***************************************************************************)
(* std::str primitives, as the crate uses them (ASCII text).               *)
(***************************************************************************)
is_whitespace(c) == c \in {" ", "\t", "\n", "\r"}

RECURSIVE trim_start(_)
trim_start(s) ==
    IF s # <<>> /\ is_whitespace(Head(s)) THEN trim_start(Tail(s)) ELSE s

RECURSIVE trim_end(_)
trim_end(s) ==
    IF s # <<>> /\ is_whitespace(s[Len(s)])
    THEN trim_end(SubSeq(s, 1, Len(s) - 1))
    ELSE s

trim(s) == trim_end(trim_start(s))

starts_with(s, c) == s # <<>> /\ s[1] = c

\* position of the first occurrence of the character c in s, 0 when absent
find(s, c) ==
    IF \E i \in 1..Len(s) : s[i] = c
    THEN CHOOSE i \in 1..Len(s) : s[i] = c /\ \A j \in 1..(i - 1) : s[j] # c
    ELSE 0

split_once(s, c) ==
    LET i == find(s, c)
    IN  IF i = 0
        THEN None
        ELSE Some(<<SubSeq(s, 1, i - 1), SubSeq(s, i + 1, Len(s))>>)

RECURSIVE split(_, _)
split(s, c) ==
    LET i == find(s, c)
    IN  IF i = 0
        THEN <<s>>
        ELSE <<SubSeq(s, 1, i - 1)>> \o split(SubSeq(s, i + 1, Len(s)), c)

(***************************************************************************)
(* HashMap<String, Vec<String>>.                                           *)
(***************************************************************************)
EmptyMap == [k \in {} |-> <<>>]

insert(m, k, v) == [x \in (DOMAIN m) \cup {k} |-> IF x = k THEN v ELSE m[x]]

(***************************************************************************)
(* utils.rs: parse_metadata.  LexerStart is the state of the locals before *)
(* the loop, LexLine one iteration of the loop.                            *)
(***************************************************************************)
LexerStart == [data |-> <<>>, stanza |-> EmptyMap, key |-> <<>>, value |-> <<>>]

LexLine(st, line) ==
    IF trim(line) = <<>>
    THEN [st EXCEPT !.data = IF DOMAIN st.stanza # {}
                             THEN Append(@, st.stanza)
                             ELSE @,
                    !.stanza = EmptyMap]
    ELSE IF starts_with(line, " ")
    THEN [st EXCEPT !.value = Append(@, line)]
    ELSE LET flushed ==
                 IF st.value # <<>>
                 THEN [st EXCEPT !.stanza = insert(@, st.key, st.value),
                                 !.value = <<>>]
                 ELSE st
             kv == split_once(line, ":")
         IN  IF kv = None
             THEN [flushed EXCEPT !.key = <<>>]
             ELSE [flushed EXCEPT !.key = kv.val[1],
                                  !.value = Append(@, kv.val[2])]

RECURSIVE LexLoop(_, _)
LexLoop(st, lines) ==
    IF lines = <<>> THEN st ELSE LexLoop(LexLine(st, Head(lines)), Tail(lines))

parse_metadata(lines) == Ok(LexLoop(LexerStart, lines).data)

(***************************************************************************)
(* utils.rs: field extractors.                                             *)
(***************************************************************************)
stanza_value(key, stanza) ==
    IF key \in DOMAIN stanza THEN Ok(trim(stanza[key][1])) ELSE Err

stanza_opt_value(key, stanza) ==
    LET r == stanza_value(key, stanza)
    IN  IF r.tag = "Ok" THEN Some(r.val) ELSE None

stanza_lines(key, stanza, filter_empty) ==
    IF key \notin DOMAIN stanza
    THEN Err
    ELSE LET trimmed == [i \in 1..Len(stanza[key]) |-> trim(stanza[key][i])]
         IN  Ok(IF filter_empty
                THEN SelectSeq(trimmed, LAMBDA l : Len(l) > 0)
                ELSE trimmed)

(***************************************************************************)
(* Characters: code points of printable ASCII, digits, u64 parsing and     *)
(* printing.                                                               *)
(***************************************************************************)
\* printable ASCII from the space (32) to the underscore (95)
AsciiLow ==
    <<" ", "!", "\"", "#", "$", "%", "&", "'", "(", ")", "*", "+", ",", "-",
      ".", "/", "0", "1", "2", "3", "4", "5", "6", "7", "8", "9", ":", ";",
      "<", "=", ">", "?", "@", "A", "B", "C", "D", "E", "F", "G", "H", "I",
      "J", "K", "L", "M", "N", "O", "P", "Q", "R", "S", "T", "U", "V", "W",
      "X", "Y", "Z", "[", "\\", "]", "^", "_">>

\* printable ASCII from a (97) to the tilde (126)
AsciiHigh ==
    <<"a", "b", "c", "d", "e", "f", "g", "h", "i", "j", "k", "l", "m", "n",
      "o", "p", "q", "r", "s", "t", "u", "v", "w", "x", "y", "z", "{", "|",
      "}", "~">>

code_point(c) ==
    IF \E i \in 1..Len(AsciiLow) : AsciiLow[i] = c
    THEN 31 + (CHOOSE i \in 1..Len(AsciiLow) : AsciiLow[i] = c)
    ELSE 96 + (CHOOSE i \in 1..Len(AsciiHigh) : AsciiHigh[i] = c)

DecimalDigits == <<"0", "1", "2", "3", "4", "5", "6", "7", "8", "9">>

is_ascii_digit(c) == \E d \in 1..10 : DecimalDigits[d] = c

digit_value(c) == (CHOOSE d \in 1..10 : DecimalDigits[d] = c) - 1

RECURSIVE decimal_value(_, _)
decimal_value(acc, s) ==
    IF s = <<>> THEN acc ELSE decimal_value(10 * acc + digit_value(Head(s)), Tail(s))

\* str::parse::<u64>: an optional `+`, then one or more decimal digits.  The
\* texts of the model are far shorter than the twenty digits of u64::MAX, so
\* the overflow error does not arise.
parse_u64(s) ==
    LET digits == IF starts_with(s, "+") THEN Tail(s) ELSE s
    IN  IF digits # <<>> /\ \A i \in 1..Len(digits) : is_ascii_digit(digits[i])
        THEN Ok(decimal_value(0, digits))
        ELSE Err

\* u64 as text (Display)
RECURSIVE to_string(_)
to_string(n) ==
    IF n < 10
    THEN <<DecimalDigits[n + 1]>>
    ELSE Append(to_string(n \div 10), DecimalDigits[(n % 10) + 1])

\* Ordering of two integers
cmp(a, b) == IF a < b THEN "Less" ELSE IF a > b THEN "Greater" ELSE "Equal"

(***************************************************************************)
(* utils.rs: stanza_files.  FilesLoop is the for loop over the lines, with *)
(* the files pushed so far.                                                *)
(***************************************************************************)
file_parts(l) ==
    LET pieces == split(l, " ")
    IN  SelectSeq([i \in 1..Len(pieces) |-> trim(pieces[i])], LAMBDA v : Len(v) > 0)

RECURSIVE FilesLoop(_, _)
FilesLoop(files, lines) ==
    IF lines = <<>>
    THEN Ok(files)
    ELSE LET parts == file_parts(Head(lines))
         IN  IF Len(parts) # 3
             THEN Err
             ELSE LET size == parse_u64(parts[2])
                  IN  IF size.tag = "Err"
                      THEN Err
                      ELSE FilesLoop(Append(files, [hash |-> parts[1],
                                                    size |-> size.val,
                                                    path |-> parts[3]]),
                                     Tail(lines))

stanza_files(key, stanza) ==
    LET lines == stanza_lines(key, stanza, TRUE)
    IN  IF lines.tag = "Err" THEN Err ELSE FilesLoop(<<>>, lines.val)

(***************************************************************************)
(* package.rs: Version, PackageVersion::new.                               *)
(***************************************************************************)
Version_new(version) == [version |-> version]

\* position of the last occurrence of the character c in s, 0 when absent
rfind(s, c) ==
    IF \E i \in 1..Len(s) : s[i] = c
    THEN CHOOSE i \in 1..Len(s) : s[i] = c /\ \A j \in (i + 1)..Len(s) : s[j] # c
    ELSE 0

\* PackageVersion::new splitting the revision off at the last `-`
PackageVersion_new_last_hyphen(version) ==
    LET res == split_once(version, ":")
        epoch == IF res = None THEN Ok(0) ELSE parse_u64(res.val[1])
        tail == IF res = None THEN version ELSE res.val[2]
        i == rfind(tail, "-")
    IN  IF epoch.tag = "Err"
        THEN Err
        ELSE Ok([epoch |-> epoch.val,
                 upstream_version |->
                     Version_new(IF i = 0 THEN tail ELSE SubSeq(tail, 1, i - 1)),
                 debian_revision |->
                     Version_new(IF i = 0 THEN <<>> ELSE SubSeq(tail, i + 1, Len(tail)))])

PackageVersion_new(version) ==
    LET res == split_once(version, ":")
        epoch == IF res = None THEN Ok(0) ELSE parse_u64(res.val[1])
        tail == IF res = None THEN version ELSE res.val[2]
        res2 == split_once(tail, "-")
        upstream_version == IF res2 = None THEN tail ELSE res2.val[1]
        debian_revision == IF res2 = None THEN <<>> ELSE res2.val[2]
    IN  IF epoch.tag = "Err"
        THEN Err
        ELSE Ok([epoch |-> epoch.val,
                 upstream_version |-> Version_new(upstream_version),
                 debian_revision |-> Version_new(debian_revision)])

(***************************************************************************)
(* package.rs: VersionBlock.  Indices are those of the code (from 0); the  *)
(* slice version[a..b] is SubSeq(version, a + 1, b).                       *)
(***************************************************************************)
VersionBlock_new == [prefix |-> <<>>, number |-> 0]

\* version[a..b].parse::<u64>(), 0 on error
block_number(version, a, b) ==
    LET n == parse_u64(SubSeq(version, a + 1, b))
    IN  IF n.tag = "Ok" THEN n.val ELSE 0

BlocksStart == [blocks |-> <<>>, start |-> 0, start_digit |-> 0, digit |-> FALSE]

\* one iteration of the loop over version.chars().enumerate()
BlocksChar(st, version, i) ==
    IF is_ascii_digit(version[i + 1])
    THEN [st EXCEPT !.digit = TRUE, !.start_digit = i]
    ELSE IF st.digit
    THEN [st EXCEPT
             !.blocks = Append(@, [prefix |-> SubSeq(version, st.start + 1, st.start_digit),
                                   number |-> block_number(version, st.start_digit, i)]),
             !.digit = FALSE,
             !.start = i]
    ELSE st

RECURSIVE BlocksLoop(_, _, _)
BlocksLoop(st, version, i) ==
    IF i >= Len(version) THEN st ELSE BlocksLoop(BlocksChar(st, version, i), version, i + 1)

VersionBlock_from(version) ==
    IF Len(version) = 0
    THEN <<>>
    ELSE LET st == BlocksLoop(BlocksStart, version, 0)
             len == Len(version)
             start_digit == IF st.start_digit < st.start THEN len ELSE st.start_digit
         IN  Append(st.blocks,
                    [prefix |-> SubSeq(version, st.start + 1, start_digit),
                     number |-> block_number(version, start_digit, len)])

\* the for loop over the zipped characters of two prefixes, from position i
RECURSIVE PrefixLoop(_, _, _)
PrefixLoop(sp, op, i) ==
    IF i > Len(sp) \/ i > Len(op)
    THEN Some(cmp(Len(sp), Len(op)))
    ELSE IF sp[i] # op[i]
    THEN IF sp[i] = "~"
         THEN Some("Less")
         ELSE IF op[i] = "~"
         THEN Some("Greater")
         ELSE Some(cmp(code_point(sp[i]), code_point(op[i])))
    ELSE PrefixLoop(sp, op, i + 1)

VersionBlock_partial_cmp(self, other) ==
    IF (self.prefix = <<>> /\ other.prefix = <<>>) \/ self.prefix = other.prefix
    THEN Some(cmp(self.number, other.number))
    ELSE IF self.prefix = <<>>
    THEN IF other.prefix[1] = "~" THEN Some("Greater") ELSE Some("Less")
    ELSE IF other.prefix = <<>>
    THEN IF self.prefix[1] = "~" THEN Some("Less") ELSE Some("Greater")
    ELSE PrefixLoop(self.prefix, other.prefix, 1)

(***************************************************************************)
(* package.rs: Version::partial_cmp, PackageVersion::partial_cmp.          *)
(***************************************************************************)
max(a, b) == IF a >= b THEN a ELSE b

\* chain(repeat(VersionBlock::new())).take(len)
pad(blocks, len) ==
    [i \in 1..len |-> IF i <= Len(blocks) THEN blocks[i] ELSE VersionBlock_new]

RECURSIVE VersionLoop(_, _, _)
VersionLoop(sl, ol, i) ==
    IF i > Len(sl)
    THEN Some("Equal")
    ELSE LET o == VersionBlock_partial_cmp(sl[i], ol[i])
         IN  IF o = None
             THEN Panic
             ELSE IF o.val = "Equal"
             THEN VersionLoop(sl, ol, i + 1)
             ELSE o

Version_partial_cmp(self, other) ==
    LET sl == VersionBlock_from(self.version)
        ol == VersionBlock_from(other.version)
        len == max(Len(sl), Len(ol))
    IN  VersionLoop(pad(sl, len), pad(ol, len), 1)

PackageVersion_partial_cmp(self, other) ==
    IF self.epoch # other.epoch
    THEN Some(cmp(self.epoch, other.epoch))
    ELSE IF self.upstream_version # other.upstream_version
    THEN Version_partial_cmp(self.upstream_version, other.upstream_version)
    ELSE Version_partial_cmp(self.debian_revision, other.debian_revision)

(***************************************************************************)
(* package.rs: PackageVersionRelation.                                     *)
(***************************************************************************)
PackageVersionRelation_new(rel) ==
    IF rel = <<"<", "<">> THEN Ok("LT")
    ELSE IF rel = <<"<", "=">> THEN Ok("LTE")
    ELSE IF rel = <<"=">> THEN Ok("EQ")
    ELSE IF rel = <<">", "=">> THEN Ok("GTE")
    ELSE IF rel = <<">", ">">> THEN Ok("GT")
    ELSE Err

PackageVersionRelation_is(self, o) ==
    IF o = "Equal" THEN self \in {"LTE", "EQ", "GTE"}
    ELSE IF o = "Less" THEN self \in {"LTE", "LT"}
    ELSE self \in {"GT", "GTE"}

(***************************************************************************)
(* package.rs: PackageRelation.  Result<_, _> values with `?` pass an Err  *)
(* on; a Panic passes through every caller.                                *)
(***************************************************************************)
RECURSIVE PackageRelation_new(_)
PackageRelation_new(text) ==
    LET relation == trim(text)
        ra == split_once(relation, "|")
        r == IF ra = None THEN relation ELSE trim(ra.val[1])
        a == IF ra = None
             THEN Ok(None)
             ELSE LET alt == PackageRelation_new(trim(ra.val[2]))
                  IN  IF alt.tag = "Ok" THEN Ok(Some(alt.val)) ELSE alt
        nv == split_once(r, " ")
    IN  IF a.tag # "Ok"
        THEN a
        ELSE IF nv = None
        THEN Ok([package |-> relation,
                 relation |-> "EQ",
                 version |-> None,
                 alternative |-> a.val])
        ELSE LET name == trim(nv.val[1])
                 annotation == trim(nv.val[2])
             IN  \* &version[1..version.len() - 1]
                 IF Len(annotation) < 2
                 THEN Panic
                 ELSE LET version == SubSeq(annotation, 2, Len(annotation) - 1)
                          rv == split_once(version, " ")
                      IN  IF rv = None
                          THEN Err
                          ELSE LET rel == PackageVersionRelation_new(trim(rv.val[1]))
                                   ver == PackageVersion_new(trim(rv.val[2]))
                               IN  IF rel.tag = "Err" THEN Err
                                   ELSE IF ver.tag = "Err" THEN Err
                                   ELSE Ok([package |-> name,
                                            relation |-> rel.val,
                                            version |-> Some(ver.val),
                                            alternative |-> a.val])

\* the closure handed to filter in PackageRelation::parse
relation_filter(r) == IF r.tag = "Ok" THEN FALSE ELSE TRUE

\* Result::unwrap
unwrap(r) == IF r.tag = "Ok" THEN r.val ELSE Panic

\* .filter(..).map(|r| r.unwrap()).collect() over the results of
\* PackageRelation::new: Ok(the unwrapped values), or the panic of new or of
\* an unwrap
relation_collect(results) ==
    IF \E i \in 1..Len(results) : results[i] = Panic
    THEN Panic
    ELSE LET kept == SelectSeq(results, relation_filter)
             list == [i \in 1..Len(kept) |-> unwrap(kept[i])]
         IN  IF \E i \in 1..Len(list) : list[i] = Panic THEN Panic ELSE Ok(list)

\* if list.is_empty() { None } else { Some(list) }
some_unless_empty(list) ==
    IF list = Panic THEN Panic
    ELSE IF list.val = <<>> THEN None
    ELSE Some(list.val)

relation_list(value) ==
    IF value.tag = "Err"
    THEN None
    ELSE LET parts == split(value.val, ",")
         IN  some_unless_empty(relation_collect(
                 [i \in 1..Len(parts) |-> PackageRelation_new(trim(parts[i]))]))

PackageRelation_parse(key, stanza) == relation_list(stanza_value(key, stanza))

RECURSIVE PackageRelation_is(_, _)
PackageRelation_is(p, package) ==
    IF p.package = package.package
    THEN IF p.version = None
         THEN TRUE
         ELSE LET o == PackageVersion_partial_cmp(p.version.val, package.version)
              IN  IF o = None THEN FALSE ELSE PackageVersionRelation_is(p.relation, o.val)
    ELSE IF p.alternative # None
    THEN PackageRelation_is(p.alternative.val, package)
    ELSE FALSE

(***************************************************************************)
(* package.rs: PackageVersion::parse, PackageListItem::parse,              *)
(* PackageMetadata.                                                        *)
(***************************************************************************)
PackageVersion_parse(key, stanza) ==
    LET value == stanza_value(key, stanza)
    IN  IF value.tag = "Err" THEN Err ELSE PackageVersion_new(value.val)

PackageListItem_parse(key, stanza) ==
    LET lines == stanza_lines(key, stanza, TRUE)
    IN  IF lines.tag = "Err"
        THEN None
        ELSE LET item(l) ==
                     LET parts == split(l, " ")
                     IN  \* parts[4] of a shorter Vec is out of range
                         IF Len(parts) < 5
                         THEN Panic
                         ELSE [name |-> trim(parts[1]),
                               type_name |-> trim(parts[2]),
                               section |-> trim(parts[4]),
                               priority |-> trim(parts[5])]
                 items == [i \in 1..Len(lines.val) |-> item(lines.val[i])]
             IN  IF \E i \in 1..Len(items) : items[i] = Panic
                 THEN Panic
                 ELSE IF items = <<>> THEN None ELSE Some(items)

KeyPackage == <<"P", "a", "c", "k", "a", "g", "e">>
KeyArchitecture == <<"A", "r", "c", "h", "i", "t", "e", "c", "t", "u", "r", "e">>
KeyVersion == <<"V", "e", "r", "s", "i", "o", "n">>
KeyDepends == <<"D", "e", "p", "e", "n", "d", "s">>
KeyPreDepends == <<"P", "r", "e", "-", "D", "e", "p", "e", "n", "d", "s">>
KeyRecommends == <<"R", "e", "c", "o", "m", "m", "e", "n", "d", "s">>
KeySuggests == <<"S", "u", "g", "g", "e", "s", "t", "s">>
KeyEnhances == <<"E", "n", "h", "a", "n", "c", "e", "s">>
KeyBreaks == <<"B", "r", "e", "a", "k", "s">>
KeyConflicts == <<"C", "o", "n", "f", "l", "i", "c", "t", "s">>
KeyProvides == <<"P", "r", "o", "v", "i", "d", "e", "s">>
KeyReplaces == <<"R", "e", "p", "l", "a", "c", "e", "s">>
KeyPackageList == <<"P", "a", "c", "k", "a", "g", "e", "-", "L", "i", "s", "t">>

\* The struct literal evaluates its fields in the order written; a `?`
\* returns the Err at once, a panic unwinds at once.  The fields read with stanza_opt_value,
\* stanza_opt_list, stanza_opt_text, stanza_opt_files, stanza_date,
\* PackageUpdateUrgency::parse and PackageVcs::parse neither fail nor panic
\* and are left out of the record.
PackageMetadata_struct(package, architecture, relations, version, package_list) ==
    IF package.tag = "Err" THEN Err
    ELSE IF architecture.tag = "Err" THEN Err
    ELSE IF \E i \in 1..Len(relations) : relations[i] = Panic THEN Panic
    ELSE IF version.tag = "Err" THEN Err
    ELSE IF package_list = Panic THEN Panic
    ELSE Ok([package |-> package.val,
             architecture |-> architecture.val,
             depends |-> relations[1],
             pre_depends |-> relations[2],
             recommends |-> relations[3],
             suggests |-> relations[4],
             enhances |-> relations[5],
             breaks |-> relations[6],
             conflicts |-> relations[7],
             provides |-> relations[8],
             replaces |-> relations[9],
             version |-> version.val,
             package_list |-> package_list])

RelationKeys ==
    <<KeyDepends, KeyPreDepends, KeyRecommends, KeySuggests, KeyEnhances,
      KeyBreaks, KeyConflicts, KeyProvides, KeyReplaces>>

PackageMetadata_new(stanza) ==
    PackageMetadata_struct(
        stanza_value(KeyPackage, stanza),
        stanza_value(KeyArchitecture, stanza),
        [i \in 1..Len(RelationKeys) |-> PackageRelation_parse(RelationKeys[i], stanza)],
        PackageVersion_parse(KeyVersion, stanza),
        PackageListItem_parse(KeyPackageList, stanza))

\* the closure handed to filter in PackageMetadata::parse
metadata_filter(r) == IF r.tag = "Ok" THEN TRUE ELSE FALSE

\* .filter(..).map(|r| r.unwrap()).collect() over the results of
\* PackageMetadata::new
metadata_collect(results) ==
    IF \E i \in 1..Len(results) : results[i] = Panic
    THEN Panic
    ELSE LET kept == SelectSeq(results, metadata_filter)
             list == [i \in 1..Len(kept) |-> unwrap(kept[i])]
         IN  IF \E i \in 1..Len(list) : list[i] = Panic THEN Panic ELSE Ok(list)

metadata_list(parsed_stanzas) ==
    IF parsed_stanzas.tag = "Err"
    THEN Err
    ELSE metadata_collect(
             [i \in 1..Len(parsed_stanzas.val) |-> PackageMetadata_new(parsed_stanzas.val[i])])

PackageMetadata_parse(lines) == metadata_list(parse_metadata(lines))

(***************************************************************************)
(* utils.rs: stanza_list, stanza_text.                                     *)
(***************************************************************************)
stanza_list(key, stanza) ==
    IF key \notin DOMAIN stanza
    THEN Err
    ELSE LET values == split(stanza[key][1], " ")
         IN  Ok(SelectSeq([i \in 1..Len(values) |-> trim(values[i])],
                          LAMBDA v : Len(v) > 0))

\* [&str]::join
RECURSIVE join(_, _)
join(texts, sep) ==
    IF texts = <<>> THEN <<>>
    ELSE IF Len(texts) = 1 THEN texts[1]
    ELSE texts[1] \o sep \o join(Tail(texts), sep)

stanza_text(key, stanza) ==
    IF key \notin DOMAIN stanza
    THEN Err
    ELSE Ok(join([i \in 1..Len(stanza[key]) |-> trim(stanza[key][i])], <<"\n">>))

(***************************************************************************)
(* repository.rs: RepositoryMetadata::new.  The date is parsed by the      *)
(* chrono crate, which is not part of the sources: of the dates a release  *)
(* file is drawn with, it accepts ReleaseDate and rejects every other.     *)
(***************************************************************************)
ReleaseDate == <<"S", "a", "t", ",", " ", "0", "1", " ", "J", "a", "n", " ", "2", "0", "2", "2", " ", "0", "0", ":", "0", "0", ":", "0", "0", " ", "U", "T", "C">>

parse_from_str(date) == IF date = ReleaseDate THEN Ok(date) ELSE Err

KeyMD5Sum == <<"M", "D", "5", "S", "u", "m">>
KeyCodename == <<"C", "o", "d", "e", "n", "a", "m", "e">>
KeyDate == <<"D", "a", "t", "e">>
KeyArchitectures == <<"A", "r", "c", "h", "i", "t", "e", "c", "t", "u", "r", "e", "s">>
KeyComponents == <<"C", "o", "m", "p", "o", "n", "e", "n", "t", "s">>
KeyDescription == <<"D", "e", "s", "c", "r", "i", "p", "t", "i", "o", "n">>
KeyOrigin == <<"O", "r", "i", "g", "i", "n">>
KeyLabel == <<"L", "a", "b", "e", "l">>
KeySuite == <<"S", "u", "i", "t", "e">>
KeySHA1 == <<"S", "H", "A", "1">>
KeySHA256 == <<"S", "H", "A", "2", "5", "6">>

\* Iterator::find(|d| d.contains_key("Codename")).ok_or(..)
find_codename(data) ==
    IF \E i \in 1..Len(data) : KeyCodename \in DOMAIN data[i]
    THEN Ok(data[CHOOSE i \in 1..Len(data) :
                     /\ KeyCodename \in DOMAIN data[i]
                     /\ \A j \in 1..(i - 1) : KeyCodename \notin DOMAIN data[j]])
    ELSE Err

\* the struct literal: a `?` returns the first Err in the order of the fields
RepositoryMetadata_struct(architectures, components, description, origin, label, version, suite, codename, date, md5sum, sha1, sha256) ==
    IF architectures.tag = "Err" THEN Err
    ELSE IF components.tag = "Err" THEN Err
    ELSE IF description.tag = "Err" THEN Err
    ELSE IF version.tag = "Err" THEN Err
    ELSE IF codename.tag = "Err" THEN Err
    ELSE IF md5sum.tag = "Err" THEN Err
    ELSE IF sha1.tag = "Err" THEN Err
    ELSE IF sha256.tag = "Err" THEN Err
    ELSE Ok([architectures |-> architectures.val,
             components |-> components.val,
             description |-> description.val,
             origin |-> origin,
             label |-> label,
             version |-> version.val,
             suite |-> suite,
             codename |-> codename.val,
             date |-> date,
             md5sum |-> md5sum.val,
             sha1 |-> sha1.val,
             sha256 |-> sha256.val])

metadata_of_stanza(stanza, date) ==
    IF date.tag = "Err"
    THEN Err
    ELSE RepositoryMetadata_struct(
             stanza_list(KeyArchitectures, stanza),
             stanza_list(KeyComponents, stanza),
             stanza_text(KeyDescription, stanza),
             stanza_opt_value(KeyOrigin, stanza),
             stanza_opt_value(KeyLabel, stanza),
             stanza_value(KeyVersion, stanza),
             stanza_opt_value(KeySuite, stanza),
             stanza_value(KeyCodename, stanza),
             date.val,
             stanza_files(KeyMD5Sum, stanza),
             stanza_files(KeySHA1, stanza),
             stanza_files(KeySHA256, stanza))

\* let date = stanza_value("Date", &stanza)?; then NaiveDateTime::parse_from_str
stanza_naive_date(date) == IF date.tag = "Err" THEN Err ELSE parse_from_str(date.val)

metadata_of_found(found) ==
    IF found.tag = "Err"
    THEN Err
    ELSE metadata_of_stanza(found.val, stanza_naive_date(stanza_value(KeyDate, found.val)))

RepositoryMetadata_new(lines) == metadata_of_found(find_codename(parse_metadata(lines).val))

(***************************************************************************)
(* repository.rs: Repository.  A method is an operator from the receiver   *)
(* (and the inputs of the call) to the receiver after the call and the     *)
(* value returned; after a panic the receiver is as the unwinding left it. *)
(***************************************************************************)
Unit == <<>>

Returns(self, result) == [self |-> self, result |-> result]

RepositoryData_new == [files |-> EmptyMap, package_indices |-> EmptyMap, packages |-> EmptyMap]

to_repo(spec) == [spec |-> spec, metadata |-> None, data |-> RepositoryData_new]

\* downloaded: the value returned by download(&url)
load_metadata(self, downloaded) ==
    IF downloaded.tag = "Err"
    THEN Returns(self, Err)
    ELSE LET metadata == RepositoryMetadata_new(downloaded.val)
         IN  IF metadata.tag = "Err"
             THEN Returns(self, Err)
             ELSE Returns([self EXCEPT !.metadata = Some(metadata.val)], Ok(Unit))

\* str::starts_with and str::contains with a string pattern
starts_with_str(s, pattern) ==
    Len(pattern) <= Len(s) /\ SubSeq(s, 1, Len(pattern)) = pattern

contains(s, pattern) ==
    \E i \in 1..(Len(s) - Len(pattern) + 1) : SubSeq(s, i, i + Len(pattern) - 1) = pattern

\* for file in &meta.md5sum
RECURSIVE Md5Loop(_, _)
Md5Loop(files, list) ==
    IF list = <<>>
    THEN files
    ELSE Md5Loop(insert(files, Head(list).path,
                        [path |-> Head(list).path,
                         size |-> Head(list).size,
                         hashes |-> <<[kind |-> "MD5", hash |-> Head(list).hash]>>]),
                 Tail(list))

\* for file in &meta.sha1 and for file in &meta.sha256: get_mut(..).unwrap()
\* panics when the path is no key of files
RECURSIVE HashLoop(_, _, _)
HashLoop(files, list, kind) ==
    IF list = <<>>
    THEN [files |-> files, panic |-> FALSE]
    ELSE IF Head(list).path \notin DOMAIN files
    THEN [files |-> files, panic |-> TRUE]
    ELSE HashLoop([files EXCEPT ![Head(list).path].hashes =
                       Append(@, [kind |-> kind, hash |-> Head(list).hash])],
                  Tail(list), kind)

\* for (path, _meta) in &self.data.files: order is the order of the iteration
PathLoop(arch, order, c_name, a_name) ==
    arch \o SelectSeq(order, LAMBDA path :
                          /\ starts_with_str(path, c_name)
                          /\ contains(path, <<"b", "i", "n", "a", "r", "y", "-">> \o a_name))

\* for a_name in &meta.architectures
RECURSIVE ArchitectureLoop(_, _, _, _)
ArchitectureLoop(component, architectures, order, c_name) ==
    IF architectures = <<>>
    THEN component
    ELSE LET a_name == Head(architectures)
             arch == IF a_name \in DOMAIN component THEN component[a_name] ELSE <<>>
         IN  ArchitectureLoop(insert(component, a_name, PathLoop(arch, order, c_name, a_name)),
                              Tail(architectures), order, c_name)

\* for c_name in &meta.components
RECURSIVE ComponentLoop(_, _, _, _)
ComponentLoop(package_indices, components, architectures, order) ==
    IF components = <<>>
    THEN package_indices
    ELSE LET c_name == Head(components)
             component == IF c_name \in DOMAIN package_indices
                          THEN package_indices[c_name]
                          ELSE EmptyMap
         IN  ComponentLoop(insert(package_indices, c_name,
                                  ArchitectureLoop(component, architectures, order, c_name)),
                           Tail(components), architectures, order)

\* the iteration of a HashMap visits its keys in an arbitrary order: that of
\* the keys in ranking, a sequence that holds every path once
iteration(files, ranking) == SelectSeq(ranking, LAMBDA path : path \in DOMAIN files)

process_hashes(self, meta, ranking, with_md5, with_sha1, with_sha256) ==
    IF with_sha1.panic
    THEN Returns([self EXCEPT !.data.files = with_sha1.files], Panic)
    ELSE IF with_sha256.panic
    THEN Returns([self EXCEPT !.data.files = with_sha256.files], Panic)
    ELSE Returns([self EXCEPT !.data.files = with_sha256.files,
                            !.data.package_indices =
                                ComponentLoop(@, meta.components, meta.architectures,
                                              iteration(with_sha256.files, ranking))],
               Ok(Unit))

process_sha256(self, meta, ranking, with_md5, with_sha1) ==
    process_hashes(self, meta, ranking, with_md5, with_sha1,
                   IF with_sha1.panic
                   THEN with_sha1
                   ELSE HashLoop(with_sha1.files, meta.sha256, "SHA256"))

process_sha1(self, meta, ranking, with_md5) ==
    process_sha256(self, meta, ranking, with_md5, HashLoop(with_md5, meta.sha1, "SHA1"))

process_files_without_metadata(self, ranking) ==
    IF self.metadata = None
    THEN Returns(self, Ok(Unit))
    ELSE process_sha1(self, self.metadata.val, ranking,
                      Md5Loop(self.data.files, self.metadata.val.md5sum))

process_files(self, ranking) ==
    IF self.metadata = None
    THEN Returns(self, Err)
    ELSE process_sha1(self, self.metadata.val, ranking,
                      Md5Loop(self.data.files, self.metadata.val.md5sum))

\* apt_check.rs, main after process_files: package_indices[comp][arch] panics
\* when comp or arch is no key
report(self) ==
    LET meta == self.metadata.val
        components == IF self.spec.components # None
                      THEN self.spec.components.val
                      ELSE meta.components
        architectures == meta.architectures
    IN  IF \E i \in 1..Len(components), j \in 1..Len(architectures) :
               \/ components[i] \notin DOMAIN self.data.package_indices
               \/ architectures[j] \notin DOMAIN self.data.package_indices[components[i]]
        THEN Panic
        ELSE Ok(Unit)

(***************************************************************************)
(* The lines of the lexer's documents.                                     *)
(***************************************************************************)
LineFieldA == <<"F", "i", "e", "l", "d", "-", "A", ":", " ", "v", "1">>
LineCont == <<" ", "c", "o", "n", "t", "i", "n", "u", "a", "t", "i", "o", "n">>
LineFieldB == <<"F", "i", "e", "l", "d", "-", "B", ":", " ", "v", "2">>
LineBlank == <<>>
LineFieldC == <<"F", "i", "e", "l", "d", "-", "C", ":", " ", "v", "3">>
LineTabCont == <<"\t", "m", "o", "r", "e">>
LineSpaces == <<" ", " ">>

LexLines ==
    {LineFieldA, LineCont, LineFieldB, LineBlank, LineFieldC, LineTabCont,
     LineSpaces}

(***************************************************************************)
(* The variables a specification does not use keep these values.           *)
(***************************************************************************)
NoDocument == content = <<>> /\ stanzas = NotCalled /\ packages = NotCalled

NoVersions == raw = <<>> /\ parsed = NotCalled /\ ord = NotCalled

NoRelations ==
    /\ terms = <<>>
    /\ root = NotCalled
    /\ depends = NotCalled
    /\ candidate = NotCalled
    /\ matches = NotCalled

NoFields == fields = EmptyMap /\ listed = NotCalled /\ list_items = NotCalled

NoRepository == repo = NotCalled /\ calls = <<>>

(***************************************************************************)
(* SpecLexer: a document of at most MaxLines lines is lexed.               *)
(***************************************************************************)
InitLexer ==
    /\ content \in SeqUpTo(LexLines, MaxLines)
    /\ stanzas = NotCalled
    /\ packages = NotCalled
    /\ NoVersions
    /\ NoRelations
    /\ NoFields
    /\ NoRepository

ParseMetadata ==
    /\ stanzas = NotCalled
    /\ stanzas' = parse_metadata(content)
    /\ UNCHANGED <<content, packages, versionVars, relationVars, fieldVars, repositoryVars>>

NextLexer == ParseMetadata

SpecLexer == InitLexer /\ [][NextLexer]_vars

(***************************************************************************)
(* The version specifications: version strings are drawn, each is parsed   *)
(* by PackageVersion::new, and those that parsed are compared with each    *)
(* other.                                                                  *)
(***************************************************************************)
VersionChars == {"0", "1", "a", "-", ":", "+"}
CompareChars == {"0", "1", "a", "-", ":"}
FragmentChars == {"0", "1", "a", "~"}
OrderChars == {"0", "1", "-"}

InitVersions(inputs) ==
    /\ raw \in inputs
    /\ parsed = NotCalled
    /\ ord = NotCalled
    /\ NoDocument
    /\ NoRelations
    /\ NoFields
    /\ NoRepository

ParseVersions ==
    /\ parsed = NotCalled
    /\ parsed' = Returned([i \in DOMAIN raw |-> PackageVersion_new(raw[i])])
    /\ UNCHANGED <<raw, ord, documentVars, relationVars, fieldVars, repositoryVars>>

CompareVersions ==
    /\ parsed # NotCalled
    /\ ord = NotCalled
    /\ \A i \in DOMAIN raw : parsed.val[i].tag = "Ok"
    /\ ord' = Returned([p \in (DOMAIN raw) \X (DOMAIN raw) |->
                  PackageVersion_partial_cmp(parsed.val[p[1]].val, parsed.val[p[2]].val)])
    /\ UNCHANGED <<raw, parsed, documentVars, relationVars, fieldVars, repositoryVars>>

NextVersion == ParseVersions \/ CompareVersions

InitVersionParse == InitVersions([1..1 -> SeqUpTo(VersionChars, MaxVersionLen)])

SpecVersionParse == InitVersionParse /\ [][NextVersion]_vars

InitVersionCompare == InitVersions([1..2 -> SeqUpTo(CompareChars, MaxCompareLen)])

SpecVersionCompare == InitVersionCompare /\ [][NextVersion]_vars

InitFragmentCompare == InitVersions([1..2 -> SeqUpTo(FragmentChars, MaxFragmentLen)])

SpecFragmentCompare == InitFragmentCompare /\ [][NextVersion]_vars

InitVersionOrder == InitVersions([1..3 -> SeqUpTo(OrderChars, MaxOrderLen)])

SpecVersionOrder == InitVersionOrder /\ [][NextVersion]_vars

(***************************************************************************)
(* The relationship specifications.  A relationship field is drawn as its  *)
(* comma-separated terms, each term as its `|`-separated atoms, each atom  *)
(* as a package name and the parenthesised annotation after it (empty when *)
(* the atom is a bare name); the text handed to the code is the atoms      *)
(* written out and joined.                                                 *)
(***************************************************************************)
NoAnnotation == <<>>
AnnLT == <<"(", "<", "<", " ", "1", ")">>
AnnLTE == <<"(", "<", "=", " ", "1", ")">>
AnnEQ == <<"(", "=", " ", "1", ")">>
AnnGTE == <<"(", ">", "=", " ", "1", ")">>
AnnGT == <<"(", ">", ">", " ", "1", ")">>
AnnNoOperator == <<"(", "1", ")">>
AnnOpenOnly == <<"(">>

Atom(n, ann) == [name |-> n, annotation |-> ann]

AtomText(atom) ==
    IF atom.annotation = NoAnnotation
    THEN atom.name
    ELSE atom.name \o <<" ">> \o atom.annotation

RECURSIVE JoinWith(_, _)
JoinWith(texts, sep) ==
    IF texts = <<>> THEN <<>>
    ELSE IF Len(texts) = 1 THEN texts[1]
    ELSE texts[1] \o sep \o JoinWith(Tail(texts), sep)

TermText(term) == JoinWith([i \in 1..Len(term) |-> AtomText(term[i])], <<" ", "|", " ">>)

RelationText(ts) == JoinWith([i \in 1..Len(ts) |-> TermText(ts[i])], <<",", " ">>)

\* the stanza the lexer yields for the one line `Depends: <text>`
DependsStanza(ts) == insert(EmptyMap, KeyDepends, <<<<" ">> \o RelationText(ts)>>)

NonEmptySeqUpTo(S, n) == SeqUpTo(S, n) \ {<<>>}

NameA == <<"a">>
NameB == <<"b">>
NameC == <<"c">>

RelationAtoms ==
    {Atom(NameA, NoAnnotation), Atom(NameB, NoAnnotation), Atom(NameC, NoAnnotation),
     Atom(NameA, AnnGTE), Atom(NameB, AnnNoOperator), Atom(NameC, AnnOpenOnly)}

InitRelation ==
    /\ terms \in NonEmptySeqUpTo(NonEmptySeqUpTo(RelationAtoms, MaxAlternatives), MaxTerms)
    /\ candidate = NotCalled
    /\ root = NotCalled
    /\ depends = NotCalled
    /\ matches = NotCalled
    /\ NoDocument
    /\ NoVersions
    /\ NoFields
    /\ NoRepository

NewRelation ==
    /\ root = NotCalled
    /\ root' = Returned(PackageRelation_new(TermText(terms[1])))
    /\ UNCHANGED <<terms, depends, candidate, matches, documentVars, versionVars,
                 fieldVars, repositoryVars>>

ParseRelations ==
    /\ depends = NotCalled
    /\ depends' = Returned(PackageRelation_parse(KeyDepends, DependsStanza(terms)))
    /\ UNCHANGED <<terms, root, candidate, matches, documentVars, versionVars,
                 fieldVars, repositoryVars>>

IsRelation ==
    /\ root # NotCalled
    /\ root.val.tag = "Ok"
    /\ candidate # NotCalled
    /\ matches = NotCalled
    /\ matches' = Returned(PackageRelation_is(root.val.val, candidate))
    /\ UNCHANGED <<terms, root, depends, candidate, documentVars, versionVars,
                 fieldVars, repositoryVars>>

NextRelation == NewRelation \/ ParseRelations

NextMatch == NewRelation \/ IsRelation

SpecRelation == InitRelation /\ [][NextRelation]_vars

\* the stanza of a package that parses: PackageMetadata::new builds the candidate
CandidateStanza(n, v) ==
    insert(insert(insert(EmptyMap, KeyPackage, <<<<" ">> \o n>>),
                  KeyArchitecture, <<<<" ", "a", "l", "l">>>>),
           KeyVersion, <<<<" ">> \o v>>)

Candidates ==
    {PackageMetadata_new(CandidateStanza(n, v)).val :
        n \in {NameA, NameB}, v \in {<<"0">>, <<"1">>, <<"2">>}}

MatchAtoms ==
    {Atom(n, ann) : n \in {NameA, NameB},
                    ann \in {NoAnnotation, AnnLT, AnnLTE, AnnEQ, AnnGTE, AnnGT}}

MaxMatchAlternatives == 2

InitMatch ==
    /\ terms \in [1..1 -> NonEmptySeqUpTo(MatchAtoms, MaxMatchAlternatives)]
    /\ candidate \in Candidates
    /\ root = NotCalled
    /\ depends = NotCalled
    /\ matches = NotCalled
    /\ NoDocument
    /\ NoVersions
    /\ NoFields
    /\ NoRepository

SpecMatch == InitMatch /\ [][NextMatch]_vars

(***************************************************************************)
(* SpecAnnotation: one term of at most MaxAnnotated atoms, among them      *)
(* atoms whose annotation lacks the operator, the closing parenthesis or   *)
(* both, is parsed by PackageRelation::new.                                *)
(***************************************************************************)
AnnUnclosed == <<"(", ">", "=", " ", "1", "1">>
AnnUnknownOperator == <<"(", "~", " ", "1", ")">>

AnnotatedAtoms ==
    {Atom(n, ann) : n \in {NameA, NameB},
                    ann \in {NoAnnotation, AnnGTE, AnnLT, AnnNoOperator, AnnOpenOnly,
                             AnnUnclosed, AnnUnknownOperator}}

InitAnnotation ==
    /\ terms \in [1..1 -> NonEmptySeqUpTo(AnnotatedAtoms, MaxAnnotated)]
    /\ candidate = NotCalled
    /\ root = NotCalled
    /\ depends = NotCalled
    /\ matches = NotCalled
    /\ NoDocument
    /\ NoVersions
    /\ NoFields
    /\ NoRepository

NextAnnotation == NewRelation

SpecAnnotation == InitAnnotation /\ [][NextAnnotation]_vars

(***************************************************************************)
(* SpecPackages: a Packages document of at most MaxBlocks blocks is parsed *)
(* by PackageMetadata::parse.  A block holds, in this order, the lines     *)
(* chosen for Package, Version, Architecture, Depends and Package-List,    *)
(* then a Description line and the blank line that ends the block; the     *)
(* blank line after the last block may be missing.                         *)
(***************************************************************************)
LinePackage == <<"P", "a", "c", "k", "a", "g", "e", ":", " ", "a">>
LineVersion == <<"V", "e", "r", "s", "i", "o", "n", ":", " ", "1">>
LineVersionBadEpoch == <<"V", "e", "r", "s", "i", "o", "n", ":", " ", "x", ":", "1">>
LineArchitecture == <<"A", "r", "c", "h", "i", "t", "e", "c", "t", "u", "r", "e", ":", " ", "a", "l", "l">>
LineDepends == <<"D", "e", "p", "e", "n", "d", "s", ":", " ", "b">>
LineDependsNoOperator == <<"D", "e", "p", "e", "n", "d", "s", ":", " ", "b", " ", "(", "1", ")">>
LinePackageList == <<"P", "a", "c", "k", "a", "g", "e", "-", "L", "i", "s", "t", ":">>
LineListItem == <<" ", "a", " ", "d", "e", "b", " ", "x", " ", "o", "p", "t", "i", "o", "n", "a", "l", " ", "a", "r", "c", "h", "=", "a", "n", "y">>
LineListItemShort == <<" ", "a", " ", "d", "e", "b">>
LineDescription == <<"D", "e", "s", "c", "r", "i", "p", "t", "i", "o", "n", ":", " ", "d">>

Absent == <<>>

Blocks ==
    {p \o v \o a \o d \o l \o <<LineDescription, LineBlank>> :
        p \in {Absent, <<LinePackage>>},
        v \in {Absent, <<LineVersion>>, <<LineVersionBadEpoch>>},
        a \in {Absent, <<LineArchitecture>>},
        d \in {Absent, <<LineDepends>>, <<LineDependsNoOperator>>},
        l \in {Absent, <<LinePackageList, LineListItem>>,
                       <<LinePackageList, LineListItemShort>>}}

RECURSIVE Concat(_)
Concat(seqs) == IF seqs = <<>> THEN <<>> ELSE seqs[1] \o Concat(Tail(seqs))

Document(blocks, final_blank) ==
    LET lines == Concat(blocks)
    IN  IF final_blank \/ lines = <<>> THEN lines ELSE SubSeq(lines, 1, Len(lines) - 1)

InitPackages ==
    /\ \E bs \in SeqUpTo(Blocks, MaxBlocks), fb \in BOOLEAN : content = Document(bs, fb)
    /\ stanzas = NotCalled
    /\ packages = NotCalled
    /\ NoVersions
    /\ NoRelations
    /\ NoFields
    /\ NoRepository

ParsePackages ==
    /\ packages = NotCalled
    /\ packages' = Returned(PackageMetadata_parse(content))
    /\ UNCHANGED <<content, stanzas, versionVars, relationVars, fieldVars, repositoryVars>>

NextPackages == ParsePackages

SpecPackages == InitPackages /\ [][NextPackages]_vars

(***************************************************************************)
(* SpecFiles: a stanza without the field MD5Sum, or with at most           *)
(* MaxFileLines value lines under it, is read by stanza_files.  A value    *)
(* line is at most MaxTokens tokens with a space or a tab between them;    *)
(* two more lines have doubled, leading and trailing spaces.               *)
(***************************************************************************)
FileTokens == {<<"a">>, <<"1">>}

FileSeparators == {<<" ">>, <<"\t">>}

\* the lines of n tokens with a separator between them
RECURSIVE TokenLines(_, _, _)
TokenLines(n, tokens, separators) ==
    IF n = 0 THEN {<<>>}
    ELSE IF n = 1 THEN tokens
    ELSE {l \o sep \o t : l \in TokenLines(n - 1, tokens, separators),
                           sep \in separators, t \in tokens}

FileLines ==
    UNION {TokenLines(n, FileTokens, FileSeparators) : n \in 0..MaxTokens} \cup {<<"a", " ", " ", "1", " ", " ", "a">>, <<" ", "a", " ", "1", " ", "a", " ">>}

InitFiles ==
    /\ fields \in {EmptyMap} \cup
                  {insert(EmptyMap, KeyMD5Sum, ls) : ls \in SeqUpTo(FileLines, MaxFileLines)}
    /\ listed = NotCalled
    /\ list_items = NotCalled
    /\ NoDocument
    /\ NoVersions
    /\ NoRelations
    /\ NoRepository

StanzaFiles ==
    /\ listed = NotCalled
    /\ listed' = Returned(stanza_files(KeyMD5Sum, fields))
    /\ UNCHANGED <<fields, list_items, documentVars, versionVars, relationVars,
                   repositoryVars>>

NextFiles == StanzaFiles

SpecFiles == InitFiles /\ [][NextFiles]_vars

(***************************************************************************)
(* SpecPackageList: a stanza with at most MaxListLines value lines under   *)
(* Package-List is read by PackageListItem::parse.  A value line is at     *)
(* most MaxListTokens tokens with one space between them.                  *)
(***************************************************************************)
ListTokens == {<<"a">>, <<"b">>}

ListLines == UNION {TokenLines(n, ListTokens, {<<" ">>}) : n \in 0..MaxListTokens}

InitPackageList ==
    /\ fields \in {insert(EmptyMap, KeyPackageList, ls) : ls \in SeqUpTo(ListLines, MaxListLines)}
    /\ listed = NotCalled
    /\ list_items = NotCalled
    /\ NoDocument
    /\ NoVersions
    /\ NoRelations
    /\ NoRepository

ParsePackageList ==
    /\ list_items = NotCalled
    /\ list_items' = Returned(PackageListItem_parse(KeyPackageList, fields))
    /\ UNCHANGED <<fields, listed, documentVars, versionVars, relationVars,
                   repositoryVars>>

NextPackageList == ParsePackageList

SpecPackageList == InitPackageList /\ [][NextPackageList]_vars

(***************************************************************************)
(* SpecRepository: a Repository made by RepositorySpec::to_repo, with or   *)
(* without a components override, on which load_metadata, process_files    *)
(* and the report of apt_check are called, at most MaxCalls calls with at  *)
(* most MaxLoads of load_metadata.  A download fails or yields a release   *)
(* file: one stanza with the fields of RepositoryMetadata, in which the    *)
(* lists of architectures and components, the paths under MD5Sum, SHA1 and *)
(* SHA256 and the presence of a last field after SHA256 vary.              *)
(***************************************************************************)
Main == <<"m", "a", "i", "n">>
MainExtra == <<"m", "a", "i", "n", "-", "e", "x", "t", "r", "a">>
Amd64 == <<"a", "m", "d", "6", "4">>

PathMain == <<"m", "a", "i", "n", "/", "b", "i", "n", "a", "r", "y", "-", "a", "m", "d", "6", "4", "/", "P", "a", "c", "k", "a", "g", "e", "s">>
PathExtra == <<"m", "a", "i", "n", "-", "e", "x", "t", "r", "a", "/", "b", "i", "n", "a", "r", "y", "-", "a", "m", "d", "6", "4", "/", "P", "a", "c", "k", "a", "g", "e", "s">>
PathSource == <<"m", "a", "i", "n", "/", "s", "o", "u", "r", "c", "e", "/", "S", "o", "u", "r", "c", "e", "s">>

\* every path once: the order in which a release file lists paths
Paths == <<PathMain, PathExtra, PathSource>>

\* the rankings of the paths: the orders in which a HashMap may visit them
Rankings == {r \in [1..Len(Paths) -> 1..Len(Paths)] : \A i, j \in 1..Len(Paths) : r[i] = r[j] => i = j}

Ranked(r) == [i \in 1..Len(Paths) |-> Paths[r[i]]]

PathLists(n) ==
    {SelectSeq(Paths, LAMBDA path : path \in chosen) :
        chosen \in {c \in SUBSET {PathMain, PathExtra, PathSource} : Cardinality(c) <= n}}

FileLinesOf(paths) == [i \in 1..Len(paths) |-> <<" ", "h", " ", "1", " ">> \o paths[i]]

WordsLine(key, words) == key \o <<":">> \o Concat([i \in 1..Len(words) |-> <<" ">> \o words[i]])

ReleaseFile(architectures, components, md5sum, sha1, sha256, last) ==
    <<<<"C", "o", "d", "e", "n", "a", "m", "e", ":", " ", "x">>,
      KeyDate \o <<":", " ">> \o ReleaseDate,
      WordsLine(KeyArchitectures, architectures),
      WordsLine(KeyComponents, components),
      <<"D", "e", "s", "c", "r", "i", "p", "t", "i", "o", "n", ":", " ", "d">>,
      <<"V", "e", "r", "s", "i", "o", "n", ":", " ", "1">>,
      <<"M", "D", "5", "S", "u", "m", ":">>>> \o FileLinesOf(md5sum) \o
    <<<<"S", "H", "A", "1", ":">>>> \o FileLinesOf(sha1) \o
    <<<<"S", "H", "A", "2", "5", "6", ":">>>> \o FileLinesOf(sha256) \o
    last \o <<LineBlank>>

ReleaseFiles ==
    {ReleaseFile(a, c, m, s1, s256, last) :
        a \in {<<>>, <<Amd64>>},
        c \in {<<>>, <<Main>>, <<Main, MainExtra>>},
        m \in PathLists(MaxListed),
        s1 \in PathLists(MaxHashed),
        s256 \in PathLists(MaxHashed),
        last \in {<<>>, <<<<"A", "c", "q", "u", "i", "r", "e", "-", "B", "y", "-", "H", "a", "s", "h", ":", " ", "y", "e", "s">>>>}}
    \cup {<<<<"O", "r", "i", "g", "i", "n", ":", " ", "o">>, <<"L", "a", "b", "e", "l", ":", " ", "l">>, LineBlank>>,
          <<<<"C", "o", "d", "e", "n", "a", "m", "e", ":", " ", "x">>, <<"D", "a", "t", "e", ":", " ", "t", "o", "d", "a", "y">>, <<"L", "a", "b", "e", "l", ":", " ", "l">>, LineBlank>>}

Downloads == {Err} \cup {Ok(file) : file \in ReleaseFiles}

Specs == {[components |-> None], [components |-> Some(<<MainExtra>>)]}

InitRepository ==
    /\ repo \in {to_repo(spec) : spec \in Specs}
    /\ calls = <<>>
    /\ NoDocument
    /\ NoVersions
    /\ NoRelations
    /\ NoFields

Called(op, val) == [op |-> op, val |-> val]

Loads == Len(SelectSeq(calls, LAMBDA c : c.op = "load_metadata"))

Alive ==
    /\ Len(calls) < MaxCalls
    /\ \A i \in 1..Len(calls) : calls[i].val # Panic

\* downloads: the values that download(&url) may return
LoadMetadata(downloads) ==
    /\ Alive
    /\ Loads < MaxLoads
    /\ \E downloaded \in downloads :
           LET returned == load_metadata(repo, downloaded)
           IN  /\ repo' = returned.self
               /\ calls' = Append(calls, Called("load_metadata", returned.result))
    /\ UNCHANGED <<documentVars, versionVars, relationVars, fieldVars>>

ProcessFiles ==
    /\ Alive
    /\ \E r \in Rankings :
           LET returned == process_files(repo, Ranked(r))
           IN  /\ repo' = returned.self
               /\ calls' = Append(calls, Called("process_files", returned.result))
    /\ UNCHANGED <<documentVars, versionVars, relationVars, fieldVars>>

\* main of apt_check goes on after process_files returned Ok
Report ==
    /\ Alive
    /\ calls # <<>>
    /\ calls[Len(calls)] = Called("process_files", Ok(Unit))
    /\ calls' = Append(calls, Called("report", report(repo)))
    /\ UNCHANGED <<repo, documentVars, versionVars, relationVars, fieldVars>>

NextRepository == LoadMetadata(Downloads) \/ ProcessFiles \/ Report

SpecRepository == InitRepository /\ [][NextRepository]_vars

(***************************************************************************)
(* SpecUnloaded: the same Repository and calls, with few release files:    *)
(* files that RepositoryMetadata::new rejects, and files that it accepts.   *)
(***************************************************************************)
FewReleaseFiles ==
    {<<<<"O", "r", "i", "g", "i", "n", ":", " ", "o">>, <<"L", "a", "b", "e", "l", ":", " ", "l">>, LineBlank>>,
     <<<<"C", "o", "d", "e", "n", "a", "m", "e", ":", " ", "x">>, <<"D", "a", "t", "e", ":", " ", "t", "o", "d", "a", "y">>, <<"L", "a", "b", "e", "l", ":", " ", "l">>, LineBlank>>,
     ReleaseFile(<<Amd64>>, <<Main>>, <<PathMain>>, <<PathMain>>, <<PathMain>>, <<>>)}
    \cup {ReleaseFile(a, c, m, <<>>, <<>>,
                      <<<<"A", "c", "q", "u", "i", "r", "e", "-", "B", "y", "-", "H", "a", "s", "h", ":", " ", "y", "e", "s">>>>) :
              a \in {<<>>, <<Amd64>>},
              c \in {<<>>, <<Main>>, <<Main, MainExtra>>},
              m \in {<<>>, <<PathMain>>, Paths}}

FewDownloads == {Err} \cup {Ok(file) : file \in FewReleaseFiles}

NextUnloaded == LoadMetadata(FewDownloads) \/ ProcessFiles \/ Report

SpecUnloaded == InitRepository /\ [][NextUnloaded]_vars

(***************************************************************************)
(* SpecDigitRuns: two version strings of digits and full stops, decomposed *)
(* by VersionBlock::from and ordered by Version::partial_cmp.              *)
(***************************************************************************)
RunChars == {"0", "1", "9", "."}

DecomposeVersions ==
    /\ parsed = NotCalled
    /\ parsed' = Returned([i \in DOMAIN raw |-> VersionBlock_from(raw[i])])
    /\ UNCHANGED <<raw, ord, documentVars, relationVars, fieldVars, repositoryVars>>

OrderVersions ==
    /\ ord = NotCalled
    /\ ord' = Returned([p \in (DOMAIN raw) \X (DOMAIN raw) |->
                  Version_partial_cmp(Version_new(raw[p[1]]), Version_new(raw[p[2]]))])
    /\ UNCHANGED <<raw, parsed, documentVars, relationVars, fieldVars, repositoryVars>>

InitDigitRuns == InitVersions([1..2 -> SeqUpTo(RunChars, MaxRunsLen)])

NextDigitRuns == DecomposeVersions \/ OrderVersions

SpecDigitRuns == InitDigitRuns /\ [][NextDigitRuns]_vars

(***************************************************************************)
(* SpecBlockCompare: two VersionBlock values, as the tests of package.rs   *)
(* build them, compared by VersionBlock::partial_cmp.                      *)
(***************************************************************************)
PrefixChars == {"a", "+", "~"}

VersionBlocks ==
    {[prefix |-> prefix, number |-> number] :
        prefix \in SeqUpTo(PrefixChars, MaxPrefixLen), number \in 0..MaxNumber}

CompareBlocks ==
    /\ ord = NotCalled
    /\ ord' = Returned([p \in (DOMAIN raw) \X (DOMAIN raw) |->
                  VersionBlock_partial_cmp(raw[p[1]], raw[p[2]])])
    /\ UNCHANGED <<raw, parsed, documentVars, relationVars, fieldVars, repositoryVars>>

InitBlockCompare == InitVersions([1..2 -> VersionBlocks])

NextBlockCompare == CompareBlocks

SpecBlockCompare == InitBlockCompare /\ [][NextBlockCompare]_vars

(***************************************************************************)
(* What the format prescribes for a document, stated over the lines        *)
(* themselves: a blank line holds nothing but white space, a field line    *)
(* does not begin with white space and holds a colon, and its name is the  *)
(* text before the first colon.                                            *)
(***************************************************************************)
Holds(l, c) == \E i \in 1..Len(l) : l[i] = c

BlankLine(l) == \A i \in 1..Len(l) : l[i] \in {" ", "\t"}

FieldLine(l) ==
    /\ l # <<>>
    /\ l[1] \notin {" ", "\t"}
    /\ Holds(l, ":")

First(l, c) == CHOOSE i \in 1..Len(l) : l[i] = c /\ \A j \in 1..(i - 1) : l[j] # c

Before(l, c) == SubSeq(l, 1, First(l, c) - 1)

After(l, c) == SubSeq(l, First(l, c) + 1, Len(l))

FieldName(l) == Before(l, ":")

FieldText(l) == After(l, ":")

\* the field names of each blank-line-separated block that has a field line
RECURSIVE BlockFieldNames(_, _, _)
BlockFieldNames(lines, names, acc) ==
    LET closed == IF names # {} THEN Append(acc, names) ELSE acc
    IN  IF lines = <<>>
        THEN closed
        ELSE IF BlankLine(Head(lines))
        THEN BlockFieldNames(Tail(lines), {}, closed)
        ELSE IF FieldLine(Head(lines))
        THEN BlockFieldNames(Tail(lines), names \cup {FieldName(Head(lines))}, acc)
        ELSE BlockFieldNames(Tail(lines), names, acc)

ExampleDocument == <<LineFieldA, LineCont, LineFieldB, LineBlank, LineFieldC>>

\* C1: parse_metadata returns, in document order, one stanza per block that
\* has a field line, each holding exactly the fields whose header lines lie
\* in the block (the last field before a blank line and the last block of a
\* document without a final blank line included); the five-line example
\* yields {Field-A (two value lines), Field-B} and {Field-C}.
LexerYieldsEveryBlock ==
    stanzas.tag = "Ok" =>
        LET expected == BlockFieldNames(content, {}, <<>>)
        IN  /\ Len(stanzas.val) = Len(expected)
            /\ \A k \in 1..Len(expected) : DOMAIN stanzas.val[k] = expected[k]
            /\ content = ExampleDocument =>
                   /\ Len(stanzas.val[1][FieldName(LineFieldA)]) = 2
                   /\ Len(stanzas.val[1][FieldName(LineFieldB)]) = 1
                   /\ Len(stanzas.val[2][FieldName(LineFieldC)]) = 1

\* a document that is the serialisation of one stanza: only `Name: value`
\* lines, no name twice
SerialisedStanza(lines) ==
    /\ lines # <<>>
    /\ \A i \in 1..Len(lines) : FieldLine(lines[i])
    /\ \A i, j \in 1..Len(lines) :
           FieldName(lines[i]) = FieldName(lines[j]) => i = j

\* C2: stanza round trip: the `Name: value` lines of a stanza without
\* continuation lines and without duplicate names lex to a single stanza
\* mapping the same names to the same values.
StanzaRoundTrip ==
    (stanzas.tag = "Ok" /\ SerialisedStanza(content)) =>
        /\ Len(stanzas.val) = 1
        /\ DOMAIN stanzas.val[1] = {FieldName(content[i]) : i \in 1..Len(content)}
        /\ \A i \in 1..Len(content) :
               stanza_value(FieldName(content[i]), stanzas.val[1])
                   = Ok(trim(FieldText(content[i])))

(***************************************************************************)
(* Versions.                                                               *)
(***************************************************************************)
Less == Some("Less")
Equal == Some("Equal")
Greater == Some("Greater")

\* the i-th version compares less than or equal to the j-th
Le(i, j) == ord.val[<<i, j>>] \in {Less, Equal}

\* C3: the ordering of PackageVersion values is a total order: every pair is
\* comparable, a version compares Equal to itself, a <= b and b <= a imply
\* a == b, and a <= b and b <= c imply a <= c.
VersionOrderIsTotal ==
    ord.tag = "Returned" =>
        /\ \A p \in DOMAIN ord.val : ord.val[p] \in {Less, Equal, Greater}
        /\ \A i \in DOMAIN raw : ord.val[<<i, i>>] = Equal
        /\ \A i, j \in DOMAIN raw :
               (Le(i, j) /\ Le(j, i)) => parsed.val[i].val = parsed.val[j].val
        /\ \A i, j, k \in DOMAIN raw : (Le(i, j) /\ Le(j, k)) => Le(i, k)

\* C4: tilde rule: for a non-empty version v, "~" + v is strictly less than
\* v, and v is strictly less than v + s for a non-empty s not starting with ~.
TildeRule ==
    (ord.tag = "Returned" /\ raw[1] # <<>>) =>
        /\ raw[2] = <<"~">> \o raw[1] => ord.val[<<2, 1>>] = Less
        /\ ( /\ Len(raw[2]) > Len(raw[1])
             /\ SubSeq(raw[2], 1, Len(raw[1])) = raw[1]
             /\ raw[2][Len(raw[1]) + 1] # "~" ) => ord.val[<<1, 2>>] = Less

\* C5: comparison is lexicographic over (epoch, upstream, revision): the
\* smaller epoch is less; with equal epochs the upstream comparison decides
\* unless it is Equal, and whenever it is Equal the revision comparison
\* decides.
EpochUpstreamRevision ==
    ord.tag = "Returned" =>
        LET a == parsed.val[1].val
            b == parsed.val[2].val
            upstream == Version_partial_cmp(a.upstream_version, b.upstream_version)
            revision == Version_partial_cmp(a.debian_revision, b.debian_revision)
        IN  /\ a.epoch < b.epoch => ord.val[<<1, 2>>] = Less
            /\ a.epoch > b.epoch => ord.val[<<1, 2>>] = Greater
            /\ a.epoch = b.epoch =>
                   ord.val[<<1, 2>>] = IF upstream # Equal THEN upstream ELSE revision

\* the text of a u64: an optional plus sign, then decimal digits
U64Text(s) ==
    LET digits == IF s # <<>> /\ s[1] = "+" THEN Tail(s) ELSE s
    IN  /\ digits # <<>>
        /\ \A i \in 1..Len(digits) : digits[i] \in {"0", "1", "2", "3", "4", "5", "6", "7", "8", "9"}

Join(v) ==
    to_string(v.epoch) \o <<":">> \o v.upstream_version.version
        \o <<"-">> \o v.debian_revision.version

\* C6: PackageVersion::new splits on the first `:` (epoch, 0 without `:`)
\* and the rest on the first `-` (upstream, revision, empty without `-`); it
\* fails exactly when the text before the first `:` is no u64; epoch,
\* upstream and revision joined with `:` and `-` split the same way again.
VersionSplit ==
    parsed.tag = "Returned" =>
        LET v == raw[1]
            r == parsed.val[1]
            tail == IF Holds(v, ":") THEN After(v, ":") ELSE v
        IN  /\ r.tag = "Err" <=> (Holds(v, ":") /\ ~U64Text(Before(v, ":")))
            /\ r.tag = "Ok" =>
                   /\ ~Holds(v, ":") => r.val.epoch = 0
                   /\ Holds(v, ":") => to_string(r.val.epoch) =
                          LET e == Before(v, ":")
                              digits == IF e[1] = "+" THEN Tail(e) ELSE e
                          IN  IF r.val.epoch = 0 THEN <<"0">>
                              ELSE SubSeq(digits, First(digits, "1"), Len(digits))
                   /\ r.val.upstream_version.version =
                          IF Holds(tail, "-") THEN Before(tail, "-") ELSE tail
                   /\ r.val.debian_revision.version =
                          IF Holds(tail, "-") THEN After(tail, "-") ELSE <<>>
                   /\ PackageVersion_new(Join(r.val)) = r

\* a version with an epoch, an upstream version and a revision was parsed
VersionSplitWitness ==
    /\ parsed.tag = "Returned"
    /\ parsed.val[1].tag = "Ok"
    /\ parsed.val[1].val.epoch = 1
    /\ parsed.val[1].val.upstream_version.version = <<"a">>
    /\ parsed.val[1].val.debian_revision.version = <<"0">>

(***************************************************************************)
(* What the policy prescribes for relationship fields, stated over the     *)
(* atoms the text was written from.                                        *)
(***************************************************************************)
\* an atom the parser must accept: a bare name, or a name with an operator and a version
WellFormed(atom) == atom.annotation \in {NoAnnotation, AnnLT, AnnLTE, AnnEQ, AnnGTE, AnnGT}

RECURSIVE ChainNames(_)
ChainNames(node) ==
    <<node.package>> \o
        (IF node.alternative = None THEN <<>> ELSE ChainNames(node.alternative.val))

\* C7: PackageRelation::new on a term of well-formed atoms joined with `|`
\* returns a chain with one node per atom, in `|` order, each node named by
\* the name of its own atom only (`a | b | c` gives the names a, b, c).
AlternativeChain ==
    (/\ root.tag = "Returned"
     /\ \A i \in 1..Len(terms[1]) : WellFormed(terms[1][i]))
        => /\ root.val.tag = "Ok"
           /\ ChainNames(root.val.val) = [i \in 1..Len(terms[1]) |-> terms[1][i].name]

\* C8: PackageRelation::parse never aborts and returns exactly the terms
\* that PackageRelation::new accepts, in their order (absent only when no
\* term is accepted); for `a (>= 1), b | c` the result has two entries and
\* the chain of the second holds c without a version.
ParseKeepsParseableTerms ==
    depends.tag = "Returned" =>
        LET results == [i \in 1..Len(terms) |-> PackageRelation_new(TermText(terms[i]))]
            good == SelectSeq(results, LAMBDA r : r.tag = "Ok")
        IN  /\ depends.val # Panic
            /\ depends.val = IF good = <<>>
                             THEN None
                             ELSE Some([i \in 1..Len(good) |-> good[i].val])
            /\ terms = <<<<Atom(NameA, AnnGTE)>>,
                         <<Atom(NameB, NoAnnotation), Atom(NameC, NoAnnotation)>>>>
                   => /\ Len(depends.val.val) = 2
                      /\ depends.val.val[2].alternative.val.version = None
                      /\ depends.val.val[2].alternative.val.alternative = None

\* the number a one-digit version text stands for
NumberOf(text) == CHOOSE n \in 0..9 : <<"0", "1", "2", "3", "4", "5", "6", "7", "8", "9">>[n + 1] = text[1]

\* the version written in an annotation: the text between the space and the `)`
AnnotationVersion(ann) == SubSeq(After(ann, " "), 1, Len(After(ann, " ")) - 1)

\* what the operator of an annotation asks of the candidate number c against the relation number r
OperatorHolds(ann, c, r) ==
    IF ann = AnnLT THEN c < r
    ELSE IF ann = AnnLTE THEN c <= r
    ELSE IF ann = AnnEQ THEN c = r
    ELSE IF ann = AnnGTE THEN c >= r
    ELSE c > r

\* C9: for a relation of one node, PackageRelation::is holds exactly when
\* the candidate has the name of the node and either the node has no
\* version or the candidate version stands to the relation version as the
\* operator says: `<<` less, `<=` less or equal, `=` equal, `>=` greater or
\* equal, `>>` greater (a candidate of version 2 satisfies `a (>= 1)`).
IsComparesCandidateToRelation ==
    (matches.tag = "Returned" /\ Len(terms[1]) = 1) =>
        LET atom == terms[1][1]
            c == NumberOf(candidate.version.upstream_version.version)
        IN  matches.val =
                (/\ atom.name = candidate.package
                 /\ \/ atom.annotation = NoAnnotation
                    \/ OperatorHolds(atom.annotation, c,
                                     NumberOf(AnnotationVersion(atom.annotation))))

\* C10: PackageMetadata::parse always returns Ok, and its value is the
\* records, in order, of exactly the stanzas of the document for which
\* PackageMetadata::new succeeds; a stanza that fails is dropped and never
\* aborts the parse, whatever its optional fields hold.
ParseDropsFailingStanzas ==
    packages.tag = "Returned" =>
        LET sts == parse_metadata(content).val
            results == [i \in 1..Len(sts) |-> PackageMetadata_new(sts[i])]
            good == SelectSeq(results, LAMBDA r : r.tag = "Ok")
        IN  /\ packages.val.tag = "Ok"
            /\ packages.val.val = [i \in 1..Len(good) |-> good[i].val]

(***************************************************************************)
(* Files fields.                                                           *)
(***************************************************************************)
\* the tokens of a line: its maximal runs of characters that are no white space
RECURSIVE Words(_, _, _)
Words(l, word, acc) ==
    IF l = <<>>
    THEN IF word = <<>> THEN acc ELSE Append(acc, word)
    ELSE IF Head(l) \in {" ", "\t"}
    THEN Words(Tail(l), <<>>, IF word = <<>> THEN acc ELSE Append(acc, word))
    ELSE Words(Tail(l), Append(word, Head(l)), acc)

Tokens(l) == Words(l, <<>>, <<>>)

DigitsOnly(t) ==
    /\ t # <<>>
    /\ \A i \in 1..Len(t) : t[i] \in {"0", "1", "2", "3", "4", "5", "6", "7", "8", "9"}

\* C11: stanza_files succeeds exactly when the field is present and every
\* non-empty value line splits on spaces and tabs into exactly three tokens
\* with a decimal number as the second; it then returns one File per
\* non-empty line, in order, made of the three tokens, and no hash and no
\* path of a returned File holds a white space character.
FilesTokenisation ==
    listed.tag = "Returned" =>
        LET present == KeyMD5Sum \in DOMAIN fields
            ls == IF present
                  THEN SelectSeq(fields[KeyMD5Sum], LAMBDA l : ~BlankLine(l))
                  ELSE <<>>
            wellformed ==
                /\ present
                /\ \A i \in 1..Len(ls) :
                       /\ Len(Tokens(ls[i])) = 3
                       /\ DigitsOnly(Tokens(ls[i])[2])
        IN  /\ listed.val.tag = "Ok" <=> wellformed
            /\ listed.val.tag = "Ok" =>
                   /\ Len(listed.val.val) = Len(ls)
                   /\ \A i \in 1..Len(ls) :
                          /\ listed.val.val[i].hash = Tokens(ls[i])[1]
                          /\ to_string(listed.val.val[i].size) = Tokens(ls[i])[2]
                          /\ listed.val.val[i].path = Tokens(ls[i])[3]
                          /\ ~Holds(listed.val.val[i].path, " ")
                          /\ ~Holds(listed.val.val[i].path, "\t")
                          /\ ~Holds(listed.val.val[i].hash, " ")
                          /\ ~Holds(listed.val.val[i].hash, "\t")

\* C12: PackageListItem::parse returns an error value, and never fails with
\* an index out of range, when a non-empty Package-List line has fewer than
\* five tokens between spaces; when every line has at least five, each line
\* yields name, type, section and priority from its tokens 0, 1, 3 and 4.
ShortListLineRejected ==
    list_items.tag = "Returned" =>
        LET ls == SelectSeq(fields[KeyPackageList], LAMBDA l : ~BlankLine(l))
            short == \E i \in 1..Len(ls) : Len(Tokens(ls[i])) < 5
        IN  /\ list_items.val # Panic
            /\ short => list_items.val = Err
            /\ (~short /\ ls # <<>>) =>
                   list_items.val =
                       Some([i \in 1..Len(ls) |->
                                [name |-> Tokens(ls[i])[1],
                                 type_name |-> Tokens(ls[i])[2],
                                 section |-> Tokens(ls[i])[4],
                                 priority |-> Tokens(ls[i])[5]]])

(***************************************************************************)
(* Malformed annotations.                                                  *)
(***************************************************************************)
Closed(ann) == Len(ann) >= 2 /\ ann[Len(ann)] = ")"

\* the text between the `(` and the first space is one of the five operators
Operated(ann) ==
    /\ Holds(ann, " ")
    /\ SubSeq(Before(ann, " "), 2, Len(Before(ann, " "))) \in
           {<<"<", "<">>, <<"<", "=">>, <<"=">>, <<">", "=">>, <<">", ">">>}

Malformed(atom) ==
    /\ atom.annotation # NoAnnotation
    /\ atom.annotation[1] = "("
    /\ ~Closed(atom.annotation) \/ ~Operated(atom.annotation)

\* C13: PackageRelation::new returns an error for a term with an atom that
\* has an opening `(` but no recognised operator or no closing `)`: it
\* neither accepts the atom (with an altered version) nor aborts on it.
MalformedAnnotationIsError ==
    (/\ root.tag = "Returned"
     /\ \E i \in 1..Len(terms[1]) : Malformed(terms[1][i]))
        => root.val = Err

(***************************************************************************)
(* The Repository.                                                         *)
(***************************************************************************)
\* the i-th call was made before any load_metadata had returned Ok
Unloaded(i) ==
    \A j \in 1..(i - 1) : calls[j] # Called("load_metadata", Ok(Unit))

LastIs(op) == calls # <<>> /\ calls[Len(calls)].op = op

\* C14: process_files on a Repository whose metadata no successful
\* load_metadata has set returns an error and leaves the data as they were
\* made; a failed load_metadata leaves the metadata unset.
ProcessFilesNeedsMetadata ==
    /\ Unloaded(Len(calls) + 1) => repo.metadata = None
    /\ \A i \in 1..Len(calls) :
           (calls[i].op = "process_files" /\ Unloaded(i)) => calls[i].val = Err
    /\ repo.metadata = None => repo.data = RepositoryData_new

\* process_files was called after a load_metadata that failed, and again
ProcessFilesNeedsMetadataWitness ==
    /\ Len(calls) = 3
    /\ calls[1] = Called("load_metadata", Err)
    /\ calls[2] = Called("process_files", Err)
    /\ calls[3] = Called("process_files", Err)
    /\ repo.data = RepositoryData_new

PathsOf(list) == {list[i].path : i \in 1..Len(list)}

\* C15: with the metadata set, process_files returns Ok and the keys of
\* data.files are exactly the paths listed under md5sum: a path listed only
\* under sha1 or sha256 is ignored and makes the call neither fail nor abort.
Md5SumEstablishesFiles ==
    (LastIs("process_files") /\ repo.metadata # None) =>
        /\ calls[Len(calls)].val = Ok(Unit)
        /\ DOMAIN repo.data.files = PathsOf(repo.metadata.val.md5sum)

ListedUnder(c, a) ==
    {repo.data.package_indices[c][a][i] : i \in 1..Len(repo.data.package_indices[c][a])}

Elements(list) == {list[i] : i \in 1..Len(list)}

\* the text s begins with the text t
BeginsWith(s, t) == Len(t) <= Len(s) /\ \A i \in 1..Len(t) : s[i] = t[i]

\* the text t occurs in the text s
Occurs(s, t) ==
    \E k \in 0..(Len(s) - Len(t)) : \A i \in 1..Len(t) : s[k + i] = t[i]

\* C16: after a successful process_files, package_indices[c][a] holds, for
\* every component c and architecture a of the metadata, exactly the known
\* paths that begin with c followed by a slash and in which binary-a
\* occurs; a path of main-extra is not listed under main.
IndexListsPathsOfComponent ==
    (LastIs("process_files") /\ calls[Len(calls)].val = Ok(Unit)) =>
        \A c \in Elements(repo.metadata.val.components),
           a \in Elements(repo.metadata.val.architectures) :
            ListedUnder(c, a) =
                {path \in DOMAIN repo.data.files :
                    /\ BeginsWith(path, c \o <<"/">>)
                    /\ Occurs(path, <<"b", "i", "n", "a", "r", "y", "-">> \o a)}

\* C17: with a components override in the spec, a successful process_files
\* leaves an entry of package_indices for every override component and,
\* under it, for every architecture of the metadata, so that the lookups
\* of the report of apt_check never miss.
OverrideComponentsIndexed ==
    /\ (/\ LastIs("process_files")
        /\ calls[Len(calls)].val = Ok(Unit)
        /\ repo.spec.components # None)
           => \A c \in Elements(repo.spec.components.val) :
                  /\ c \in DOMAIN repo.data.package_indices
                  /\ \A a \in Elements(repo.metadata.val.architectures) :
                         a \in DOMAIN repo.data.package_indices[c]
    /\ (LastIs("report") /\ repo.spec.components # None)
           => calls[Len(calls)].val # Panic

\* C18: the metadata that RepositoryMetadata::new returns (and
\* load_metadata stores) have at least one architecture and at least one
\* component: a release stanza whose Architectures or Components field
\* holds no token is not accepted.
MetadataListsNonEmpty ==
    repo.metadata # None =>
        /\ repo.metadata.val.architectures # <<>>
        /\ repo.metadata.val.components # <<>>

\* the decimal value of a run of digits
RECURSIVE RunValue(_)
RunValue(digits) ==
    IF digits = <<>>
    THEN 0
    ELSE 10 * RunValue(SubSeq(digits, 1, Len(digits) - 1)) + NumberOf(<<digits[Len(digits)]>>)

IsDigit(c) == c \in {"0", "1", "2", "3", "4", "5", "6", "7", "8", "9"}

\* the length of the longest run of digits (digit = TRUE) or of other
\* characters (digit = FALSE) that v begins with
LeadLen(v, digit) ==
    CHOOSE k \in 0..Len(v) :
        /\ \A j \in 1..k : IsDigit(v[j]) = digit
        /\ k = Len(v) \/ IsDigit(v[k + 1]) # digit

\* the blocks of v: every digit-free run with the value of the digit run
\* after it
RECURSIVE RunBlocks(_)
RunBlocks(v) ==
    IF v = <<>>
    THEN <<>>
    ELSE LET p == LeadLen(v, FALSE)
             rest == SubSeq(v, p + 1, Len(v))
             d == LeadLen(rest, TRUE)
         IN  <<[prefix |-> SubSeq(v, 1, p), number |-> RunValue(SubSeq(rest, 1, d))]>>
                 \o RunBlocks(SubSeq(rest, d + 1, Len(rest)))

\* v[a..b] is a whole digit run of v
DigitRunAt(v, a, b) ==
    /\ a <= b
    /\ b <= Len(v)
    /\ \A j \in a..b : IsDigit(v[j])
    /\ a = 1 \/ ~IsDigit(v[a - 1])
    /\ b = Len(v) \/ ~IsDigit(v[b + 1])

\* C19: VersionBlock::from gives, for a version ending in a digit, one block
\* per digit run, with the digit-free run before it as prefix and the decimal
\* value of the whole run as number; and of two versions that differ in one
\* digit run only, the one with the smaller value of that run is Less.
DigitRunsAreNumbers ==
    /\ parsed.tag = "Returned" =>
           \A i \in DOMAIN raw :
               (raw[i] # <<>> /\ IsDigit(raw[i][Len(raw[i])])) =>
                   parsed.val[i] = RunBlocks(raw[i])
    /\ ord.tag = "Returned" =>
           \A a \in 1..Len(raw[1]), b1 \in 1..Len(raw[1]), b2 \in 1..Len(raw[2]) :
               ( /\ DigitRunAt(raw[1], a, b1)
                 /\ DigitRunAt(raw[2], a, b2)
                 /\ SubSeq(raw[1], 1, a - 1) = SubSeq(raw[2], 1, a - 1)
                 /\ SubSeq(raw[1], b1 + 1, Len(raw[1])) = SubSeq(raw[2], b2 + 1, Len(raw[2]))
                 /\ RunValue(SubSeq(raw[1], a, b1)) < RunValue(SubSeq(raw[2], a, b2)) )
               => ord.val[<<1, 2>>] = Less

\* the rank of a character of a prefix: the tilde below every other one
PrefixRank(c) == IF c = "~" THEN 0 ELSE 1 + code_point(c)

\* the first position at which two prefixes differ, one past the shorter
\* one when it is a proper prefix of the other
FirstDifference(sp, op) ==
    CHOOSE i \in 1..(Len(sp) + 1) :
        /\ \A j \in 1..(i - 1) : j <= Len(op) /\ sp[j] = op[j]
        /\ i > Len(sp) \/ i > Len(op) \/ sp[i] # op[i]

\* the order of two different non-empty prefixes
PrefixOrder(sp, op) ==
    LET i == FirstDifference(sp, op)
    IN  IF i > Len(sp)
        THEN IF op[i] = "~" THEN Greater ELSE Less
        ELSE IF i > Len(op)
        THEN IF sp[i] = "~" THEN Less ELSE Greater
        ELSE Some(cmp(PrefixRank(sp[i]), PrefixRank(op[i])))

\* C20: two blocks with different non-empty prefixes are ordered by the first
\* character at which the prefixes differ, the tilde below every other
\* character and the others by code point; a proper prefix is Less than the
\* longer prefix unless the next character of the longer one is a tilde, and
\* then the longer one is Less.
BlockPrefixOrder ==
    ord.tag = "Returned" =>
        \A i, j \in DOMAIN raw :
            ( /\ raw[i].prefix # <<>>
              /\ raw[j].prefix # <<>>
              /\ raw[i].prefix # raw[j].prefix )
            => ord.val[<<i, j>>] = PrefixOrder(raw[i].prefix, raw[j].prefix)

\* the candidate satisfies an atom: it has the name of the atom, and the atom
\* has no annotation or the candidate number stands to the number of the
\* annotation as its operator says
SatisfiedBy(atom, package) ==
    /\ atom.name = package.package
    /\ \/ atom.annotation = NoAnnotation
       \/ OperatorHolds(atom.annotation,
                        NumberOf(package.version.upstream_version.version),
                        NumberOf(AnnotationVersion(atom.annotation)))

\* C21: for a relation with alternatives, PackageRelation::is holds exactly
\* when the candidate satisfies some atom of the chain: an atom with the name
\* of the candidate whose version constraint is not met does not end the
\* walk (a candidate a of version 1 matches `a (<< 1) | a (>= 1)`).
IsWalksWholeChain ==
    (matches.tag = "Returned" /\ Len(terms[1]) >= 2) =>
        matches.val = (\E k \in 1..Len(terms[1]) : SatisfiedBy(terms[1][k], candidate))

\* a line that begins with a space or a tab and is not blank
ContinuationLine(l) ==
    /\ l # <<>>
    /\ l[1] \in {" ", "\t"}
    /\ ~BlankLine(l)

\* the document begins with a field line, lines 2..j continue it, and the
\* lines after them up to the blank line b are field lines of other names
ContinuedField(j, b) ==
    /\ FieldLine(content[1])
    /\ \A i \in 2..j : ContinuationLine(content[i])
    /\ j + 1 < b
    /\ \A i \in (j + 1)..(b - 1) :
           FieldLine(content[i]) /\ FieldName(content[i]) # FieldName(content[1])
    /\ BlankLine(content[b])

\* C22: the lines that begin with a space or a tab and follow a field line
\* are the value lines of that field, verbatim and in order, after the text
\* of the field line; they start no field and leave the field name as it is,
\* so the stanza has no other names than those of its field lines.
ContinuationAppended ==
    stanzas.tag = "Ok" =>
        \A j \in 2..Len(content), b \in 3..Len(content) :
            ContinuedField(j, b) =>
                /\ stanzas.val # <<>>
                /\ FieldName(content[1]) \in DOMAIN stanzas.val[1]
                /\ stanzas.val[1][FieldName(content[1])]
                       = <<FieldText(content[1])>> \o SubSeq(content, 2, j)
                /\ DOMAIN stanzas.val[1] \subseteq
                       {FieldName(content[i]) : i \in {1} \cup ((j + 1)..(b - 1))}

\* no element of the list occurs twice
NoRepeats(list) == \A i, j \in 1..Len(list) : list[i] = list[j] => i = j

\* the step is a call of process_files that follows a call of process_files
\* which returned Ok, with no other call in between
SecondProcessFiles ==
    /\ LastIs("process_files")
    /\ calls[Len(calls)].val = Ok(Unit)
    /\ Len(calls') = Len(calls) + 1
    /\ calls'[Len(calls')].op = "process_files"

\* C23: a second process_files on a loaded Repository leaves data.files and
\* data.package_indices as the first call left them; after it no list of
\* package_indices holds a path twice and no file entry holds a hash twice.
ProcessFilesIdempotent ==
    [][SecondProcessFiles =>
           /\ repo'.data.files = repo.data.files
           /\ repo'.data.package_indices = repo.data.package_indices
           /\ \A c \in DOMAIN repo'.data.package_indices :
                  \A a \in DOMAIN repo'.data.package_indices[c] :
                      NoRepeats(repo'.data.package_indices[c][a])
           /\ \A path \in DOMAIN repo'.data.files :
                  NoRepeats(repo'.data.files[path].hashes)]_vars

====
